---- MODULE Spec2Model ----
(***************************************************************************)
(* A model of the signature subsystem of go-tuf: the algorithm registry    *)
(* (pkg/signatures/registry.go), the Ed25519 and ECDSA algorithms          *)
(* (pkg/signatures/ed25519.go, ecdsa.go) and the key decoder               *)
(* (pkg/key/unmarshal.go).                                                 *)
(*                                                                         *)
(* Three specifications share the module:                                  *)
(*   SpecRegistry  concurrent RegisterAlgorithm / GetAlgorithm /           *)
(*                 GetAlgorithms calls on the process-wide sync.Map;       *)
(*   SpecDecode    FromPrivateKey / FromPublicKey on key records;          *)
(*   SpecSign      Sign / Verify calls of the three registered algorithms. *)
(***************************************************************************)
EXTENDS Integers, Sequences, FiniteSets, TLC

VARIABLES registry, heap, history, last, th, dec, sg

vars == <<registry, heap, history, last, th, dec, sg>>

(***************************************************************************)
(* Bounds of the model.                                                    *)
(***************************************************************************)
\* Number of Algorithm values the caller-supplied builders may allocate.
MaxAlloc == 2

\* The goroutines calling the registry concurrently.
Threads == {"g1", "g2"}

(***************************************************************************)
(* api.go: the Algorithm interface and the error values.                   *)
(***************************************************************************)
ErrInvalidKey == "ErrInvalidKey"

ErrInvalidArgument == "ErrInvalidArgument"

ErrHashUnavailable == "ErrHashUnavailable"

ErrInvalidSignature == "ErrInvalidSignature"

\* The nil Algorithm interface value.
NilAlg == [addr |-> "nil", impl |-> "nil", name |-> "", hash |-> "", keySize |-> 0, curveBits |-> 0]

(***************************************************************************)
(* registry.go: package-level variables and init().                        *)
(* An Algorithm value is a pointer: addr is the identity of the pointee,   *)
(* the other fields are the pointee's fields.                              *)
(***************************************************************************)
Ed25519 == [addr |-> "Ed25519", impl |-> "ed25519Signer", name |-> "", hash |-> "", keySize |-> 0, curveBits |-> 0]

ECDSA_P256_SHA256 == [addr |-> "ECDSA_P256_SHA256", impl |-> "ecdsaSigner", name |-> "ecdsa-sha2-nistp256", hash |-> "SHA256", keySize |-> 32, curveBits |-> 256]

ECDSA_P384_KeySize32 == [addr |-> "ECDSA_P384_SHA384", impl |-> "ecdsaSigner", name |-> "ecdsa-sha384-nistp384", hash |-> "SHA384", keySize |-> 32, curveBits |-> 384]

ECDSA_P384_SHA384 == [addr |-> "ECDSA_P384_SHA384", impl |-> "ecdsaSigner", name |-> "ecdsa-sha384-nistp384", hash |-> "SHA384", keySize |-> 48, curveBits |-> 384]

\* The addresses of the three package-level instances.
PackageAddrs == {Ed25519.addr, ECDSA_P256_SHA256.addr, ECDSA_P384_SHA384.addr}

\* ed25519Signer.Name and ecdsaSigner.Name.
Name(alg) == IF alg.impl = "ed25519Signer" THEN "ed25519" ELSE alg.name

\* The names the callers of the registry use: the three init() registers, one
\* a caller registers itself, and one nobody registers.
Names == {"ed25519", "ecdsa-sha2-nistp256", "ecdsa-sha384-nistp384", "custom", "not-existent"}

\* Absence of a key in the sync.Map.
NoEntry == "<none>"

\* The Builder closures of init(), and the Builder values a caller may pass:
\* a nil Builder, one that returns a nil Algorithm, one that builds a new
\* ecdsaSigner named "custom" on every call.
InitBuilders == {"init.Ed25519", "init.ECDSA_P256_SHA256", "init.ECDSA_P384_SHA384"}

CallerBuilders == {"nil", "returnsNil", "newCustom", "init.Ed25519"}

\* The registrations callers make: a new name with a fresh builder, with a
\* builder that returns an algorithm of another name and with one that returns
\* nil; and a name init() has used, with a nil Builder.
Registrations == {<<"custom", "newCustom">>, <<"custom", "init.Ed25519">>, <<"custom", "returnsNil">>, <<"ed25519", "nil">>}

\* A freshly allocated ecdsaSigner named "custom": the n-th allocation.
NewCustom(n) == [addr |-> "heap" \o ToString(n), impl |-> "ecdsaSigner", name |-> "custom", hash |-> "SHA256", keySize |-> 32, curveBits |-> 256]

\* b(): the call of a Builder value with h allocations made so far. Calling
\* a nil func value panics. The closures of init() return the package-level
\* variable.
CallFreshInit(b, h) == CASE b = "init.Ed25519" -> [outcome |-> "ok", alg |-> [Ed25519 EXCEPT !.addr = "heap" \o ToString(h + 1)], heap |-> h + 1]
                  [] b = "init.ECDSA_P256_SHA256" -> [outcome |-> "ok", alg |-> [ECDSA_P256_SHA256 EXCEPT !.addr = "heap" \o ToString(h + 1)], heap |-> h + 1]
                  [] b = "init.ECDSA_P384_SHA384" -> [outcome |-> "ok", alg |-> [ECDSA_P384_SHA384 EXCEPT !.addr = "heap" \o ToString(h + 1)], heap |-> h + 1]
                  [] b = "nil" -> [outcome |-> "panic", alg |-> NilAlg, heap |-> h]
                  [] b = "returnsNil" -> [outcome |-> "ok", alg |-> NilAlg, heap |-> h]
                  [] b = "newCustom" -> [outcome |-> "ok", alg |-> NewCustom(h + 1), heap |-> h + 1]

CallBuilder(b, h) == CASE b = "init.Ed25519" -> [outcome |-> "ok", alg |-> Ed25519, heap |-> h]
                  [] b = "init.ECDSA_P256_SHA256" -> [outcome |-> "ok", alg |-> ECDSA_P256_SHA256, heap |-> h]
                  [] b = "init.ECDSA_P384_SHA384" -> [outcome |-> "ok", alg |-> ECDSA_P384_SHA384, heap |-> h]
                  [] b = "nil" -> [outcome |-> "panic", alg |-> NilAlg, heap |-> h]
                  [] b = "returnsNil" -> [outcome |-> "ok", alg |-> NilAlg, heap |-> h]
                  [] b = "newCustom" -> [outcome |-> "ok", alg |-> NewCustom(h + 1), heap |-> h + 1]

\* Whether the call b() allocates.
Allocates(b) == b = "newCustom"

\* The registry after init(): RegisterAlgorithm(X.Name(), func() Algorithm { return X }).
InitRegistryTypo == [n \in Names |-> CASE n = "ed25519" -> "init.Ed25519"
                                   [] n = "ecdsa-sha2-nistp256" -> "init.ECDSA_P256_SHA256"
                                   [] n = "ecdsa-sha384-nistp384" -> "init.ECDSA_P256_SHA256"
                                   [] OTHER -> NoEntry]

InitRegistry == [n \in Names |-> CASE n = Name(Ed25519) -> "init.Ed25519"
                               [] n = Name(ECDSA_P256_SHA256) -> "init.ECDSA_P256_SHA256"
                               [] n = Name(ECDSA_P384_SHA384) -> "init.ECDSA_P384_SHA384"
                               [] OTHER -> NoEntry]

(***************************************************************************)
(* sync.Map: Store, Load and the keys Range may visit.                     *)
(***************************************************************************)
\* A Store that drops the other keys.
StoreReset(m, k, v) == [n \in DOMAIN m |-> IF n = k THEN v ELSE NoEntry]

\* A Store that keeps the value already present (LoadOrStore).
StoreIfAbsent(m, k, v) == IF m[k] = NoEntry THEN [m EXCEPT ![k] = v] ELSE m

\* registry.Store(name, b)
Store(m, k, v) == [m EXCEPT ![k] = v]

\* registry.Load(name): the value and whether the key is present.
Load(m, k) == [value |-> m[k], ok |-> m[k] # NoEntry]

\* The keys present in the map.
Keys(m) == {n \in DOMAIN m : m[n] # NoEntry}

(***************************************************************************)
(* The goroutines that call the registry. Each runs one call at a time:    *)
(*   pc = "idle"     no call made yet                                      *)
(*   pc = "loaded"   GetAlgorithm is past registry.Load                    *)
(*   pc = "ranging"  GetAlgorithms is inside registry.Range                *)
(*   pc = "done"     the last call has returned; its result is in th       *)
(* History variables, read by no action: history (the (name, builder)      *)
(* pairs registered so far), last (per name, the builder of the latest     *)
(* RegisterAlgorithm call), and in th the fields pre (the names registered *)
(* when the call began) and expect (last[name] when the call loaded).      *)
(***************************************************************************)
IdleThread == [pc |-> "idle", op |-> "", name |-> "", b |-> NoEntry, found |-> FALSE, outcome |-> "", alg |-> NilAlg, names |-> {}, atBegin |-> {}, pre |-> {}, expect |-> NoEntry]

Ready(t) == th[t].pc \in {"idle", "done"}

\* History: the names some completed RegisterAlgorithm call has stored.
Registered == {p[1] : p \in history}

\* The registry part of the state, which a decode or a signature call leaves alone.
RegistryUnchanged == UNCHANGED <<registry, heap, history, last, th>>

\* RegisterAlgorithm(name, b): one atomic Store.
RegisterAlgorithm(t, name, b) ==
    /\ Ready(t)
    /\ registry' = Store(registry, name, b)
    /\ history' = history \cup {<<name, b>>}
    /\ last' = [n \in Names |-> IF n = name THEN b ELSE last[n]]
    /\ th' = [th EXCEPT ![t] = [IdleThread EXCEPT !.pc = "done", !.op = "RegisterAlgorithm", !.name = name, !.b = b, !.outcome = "ok"]]
    /\ UNCHANGED <<heap, dec, sg>>

\* GetAlgorithm(name), first half: registry.Load(name) and the type assertion
\* bRaw.(Builder), which holds of every stored value.
GetAlgorithmLoad(t, name) ==
    /\ Ready(t)
    /\ LET l == Load(registry, name)
       IN th' = [th EXCEPT ![t] = [IdleThread EXCEPT !.pc = "loaded", !.op = "GetAlgorithm", !.name = name, !.b = l.value, !.found = l.ok, !.pre = Registered, !.expect = last[name]]]
    /\ UNCHANGED <<registry, heap, history, last, dec, sg>>

\* What GetAlgorithm returns after the Load: b() when a builder was found,
\* nil otherwise. h is the number of allocations made so far.
GetAlgorithmResultDefault(found, b, h) == IF found THEN CallBuilder(b, h) ELSE [outcome |-> "ok", alg |-> Ed25519, heap |-> h]

GetAlgorithmResult(found, b, h) == IF found THEN CallBuilder(b, h) ELSE [outcome |-> "ok", alg |-> NilAlg, heap |-> h]

\* GetAlgorithm(name), second half: return b(), or nil when no builder was found.
GetAlgorithmReturn(t) ==
    /\ th[t].pc = "loaded"
    /\ th[t].found /\ Allocates(th[t].b) => heap < MaxAlloc
    /\ LET r == GetAlgorithmResult(th[t].found, th[t].b, heap)
       IN /\ th' = [th EXCEPT ![t].pc = "done", ![t].outcome = r.outcome, ![t].alg = r.alg]
          /\ heap' = r.heap
    /\ UNCHANGED <<registry, history, last, dec, sg>>

\* GetAlgorithms(), entry: registry.Range begins.
GetAlgorithmsBegin(t) ==
    /\ Ready(t)
    /\ th' = [th EXCEPT ![t] = [IdleThread EXCEPT !.pc = "ranging", !.op = "GetAlgorithms", !.atBegin = Keys(registry), !.pre = Registered]]
    /\ UNCHANGED <<registry, heap, history, last, dec, sg>>

\* The keys the next callback of Range may be called with: a key now present
\* that has not been visited (Range visits no key twice; a key stored during
\* the call may or may not be visited).
RangeNext(m, visited) == Keys(m) \ visited

\* GetAlgorithms(), one callback of Range: names = append(names, key.(string)).
\* The order of the names is the map's iteration order, which is unspecified:
\* names is kept as the set of the keys appended.
GetAlgorithmsVisit(t, k) ==
    /\ th[t].pc = "ranging"
    /\ k \in RangeNext(registry, th[t].names)
    /\ th' = [th EXCEPT ![t].names = @ \cup {k}]
    /\ UNCHANGED <<registry, heap, history, last, dec, sg>>

\* GetAlgorithms(), exit: Range ends once it has visited every key that was
\* present when it began; return names.
GetAlgorithmsReturn(t) ==
    /\ th[t].pc = "ranging"
    /\ RangeNext(registry, th[t].names) \cap th[t].atBegin = {}
    /\ th' = [th EXCEPT ![t].pc = "done", ![t].outcome = "ok"]
    /\ UNCHANGED <<registry, heap, history, last, dec, sg>>

InitRegistryPart ==
    /\ registry = InitRegistry
    /\ heap = 0
    /\ history = {<<Name(Ed25519), "init.Ed25519">>, <<Name(ECDSA_P256_SHA256), "init.ECDSA_P256_SHA256">>, <<Name(ECDSA_P384_SHA384), "init.ECDSA_P384_SHA384">>}
    /\ last = [n \in Names |-> CASE n = Name(Ed25519) -> "init.Ed25519"
                                 [] n = Name(ECDSA_P256_SHA256) -> "init.ECDSA_P256_SHA256"
                                 [] n = Name(ECDSA_P384_SHA384) -> "init.ECDSA_P384_SHA384"
                                 [] OTHER -> NoEntry]
    /\ th = [t \in Threads |-> IdleThread]

InitIdleCalls ==
    /\ dec = [call |-> "none"]
    /\ sg = [call |-> "none"]

InitRegistrySpec == InitRegistryPart /\ InitIdleCalls

NextRegistry ==
    \E t \in Threads :
        \/ \E r \in Registrations : RegisterAlgorithm(t, r[1], r[2])
        \/ \E name \in Names : GetAlgorithmLoad(t, name)
        \/ GetAlgorithmReturn(t)
        \/ GetAlgorithmsBegin(t)
        \/ \E k \in Names : GetAlgorithmsVisit(t, k)
        \/ GetAlgorithmsReturn(t)

SpecRegistry == InitRegistrySpec /\ [][NextRegistry]_vars

(***************************************************************************)
(* Properties of the registry.                                             *)
(***************************************************************************)
\* A goroutine whose last call, a GetAlgorithm, has returned or panicked.
Looked(t) == th[t].pc = "done" /\ th[t].op = "GetAlgorithm"

\* A goroutine whose last call, a GetAlgorithms, has returned.
Listed(t) == th[t].pc = "done" /\ th[t].op = "GetAlgorithms"

\* The package-level variable the init() closure b returns.
PackageVar(b) == CASE b = "init.Ed25519" -> Ed25519
                   [] b = "init.ECDSA_P256_SHA256" -> ECDSA_P256_SHA256
                   [] b = "init.ECDSA_P384_SHA384" -> ECDSA_P384_SHA384

\* C5: GetAlgorithm called with a name that no RegisterAlgorithm call has ever
\* stored returns nil, without panicking, whatever else the registry holds.
C5_UnknownNameIsNil ==
    \A t \in Threads :
        Looked(t) /\ th[t].name \notin Registered => th[t].outcome = "ok" /\ th[t].alg = NilAlg /\ ~th[t].found

\* C5 witness: a lookup of an unregistered name has returned nil in a registry
\* that callers have already changed.
C5_Witness ==
    \E t \in Threads :
        /\ Looked(t) /\ th[t].name = "not-existent" /\ th[t].alg = NilAlg
        /\ registry # InitRegistry /\ "custom" \in Registered

C7_EveryNameResolves ==
    /\ \A t \in Threads :
        Looked(t) /\ th[t].found => th[t].outcome = "ok" /\ th[t].alg # NilAlg /\ Name(th[t].alg) = th[t].name
    /\ \A t \in Threads :
        Listed(t) => th[t].pre \subseteq th[t].names /\ th[t].names \subseteq Registered

\* C7 (amended): a lookup that finds the builder init() stored under the name
\* returns a non-nil algorithm whose Name() is that name; GetAlgorithms returns
\* every name registered before it was called and only registered names, so
\* exactly the registered names when no registration runs beside it.
C7_InitNamesResolve ==
    /\ \A t \in Threads :
        Looked(t) /\ th[t].found /\ th[t].b = InitRegistry[th[t].name]
            => th[t].outcome = "ok" /\ th[t].alg # NilAlg /\ Name(th[t].alg) = th[t].name
    /\ \A t \in Threads :
        Listed(t) => th[t].pre \subseteq th[t].names /\ th[t].names \subseteq Registered
    /\ \A t \in Threads :
        Listed(t) /\ th[t].pre = Registered => th[t].names = Registered

\* C7 witness: GetAlgorithms has returned the three names of init() and a name
\* a caller registered, and a lookup of "ecdsa-sha384-nistp384" has returned
\* the algorithm of that name.
C7_Witness ==
    \E t, u \in Threads :
        /\ Listed(t) /\ th[t].names = {"ed25519", "ecdsa-sha2-nistp256", "ecdsa-sha384-nistp384", "custom"}
        /\ Looked(u) /\ th[u].name = "ecdsa-sha384-nistp384" /\ Name(th[u].alg) = "ecdsa-sha384-nistp384"

\* The outcome of calling builder b: a panic for the nil Builder, a nil
\* Algorithm, or an algorithm with a name.
Returns(b) == CASE b = "nil" -> [outcome |-> "panic", name |-> ""]
                [] b = "returnsNil" -> [outcome |-> "ok", name |-> ""]
                [] b = "newCustom" -> [outcome |-> "ok", name |-> "custom"]
                [] b = "init.Ed25519" -> [outcome |-> "ok", name |-> "ed25519"]
                [] b = "init.ECDSA_P256_SHA256" -> [outcome |-> "ok", name |-> "ecdsa-sha2-nistp256"]
                [] b = "init.ECDSA_P384_SHA384" -> [outcome |-> "ok", name |-> "ecdsa-sha384-nistp384"]

\* C8: RegisterAlgorithm(name, b) overwrites the entry of name and leaves the
\* other entries alone: every entry is the builder of the latest registration
\* under its name, and a lookup ends as a call of that builder ends.
C8_LastRegistrationWins ==
    /\ \A n \in Names : Load(registry, n).value = last[n]
    /\ \A t \in Threads :
        Looked(t) /\ th[t].expect # NoEntry
            => /\ th[t].b = th[t].expect
               /\ th[t].outcome = Returns(th[t].expect).outcome
               /\ (th[t].alg = NilAlg) = (Returns(th[t].expect).name = "")
               /\ th[t].alg # NilAlg => Name(th[t].alg) = Returns(th[t].expect).name

\* C8 witness: "custom" has been registered with two different builders, and a
\* lookup has returned the algorithm of the later one while the entry of
\* "ecdsa-sha2-nistp256" is still the one init() stored.
C8_Witness ==
    \E t \in Threads :
        /\ Looked(t) /\ th[t].name = "custom" /\ th[t].b = "newCustom" /\ Name(th[t].alg) = "custom"
        /\ <<"custom", "init.Ed25519">> \in history /\ <<"custom", "returnsNil">> \in history
        /\ last["custom"] = "newCustom"
        /\ registry["ecdsa-sha2-nistp256"] = "init.ECDSA_P256_SHA256"

\* C9: under every interleaving, no entry is ever removed; a lookup that
\* begins after a registration of its name has completed finds a builder, and
\* the builder it finds is one that was registered under that name (the entry
\* as it was before or after a registration running beside it), so it returns
\* nil only if that builder does; GetAlgorithms returns every name registered
\* before it began and no name that was not registered.
C9_NoEntryLost ==
    /\ \A n \in Registered : registry[n] # NoEntry
    /\ \A t \in Threads :
        th[t].op = "GetAlgorithm" /\ th[t].name \in th[t].pre => th[t].found
    /\ \A t \in Threads :
        th[t].op = "GetAlgorithm" /\ th[t].found => <<th[t].name, th[t].b>> \in history
    /\ \A t \in Threads :
        Looked(t) /\ th[t].found /\ th[t].b \notin {"nil", "returnsNil"} => th[t].alg # NilAlg
    /\ \A t \in Threads :
        Listed(t) => th[t].pre \subseteq th[t].names /\ th[t].names \subseteq Registered

\* C9 witness: a GetAlgorithms call that began before "custom" was registered
\* has returned while another goroutine registered it, and lists it.
C9_Witness ==
    \E t, u \in Threads :
        /\ Listed(t) /\ "custom" \notin th[t].pre /\ "custom" \in th[t].names
        /\ th[u].op = "RegisterAlgorithm" /\ th[u].name = "custom"

(***************************************************************************)
(* Byte strings. A byte string is a sequence of segments; a segment        *)
(* [n |-> k, v |-> id] stands for k bytes whose content is named id, so    *)
(* that lengths are the real ones and contents are compared by name.       *)
(***************************************************************************)
\* A single byte, and a 32-byte word (an Ed25519 seed or public key, a P-256
\* coordinate or scalar).
B(v) == [n |-> 1, v |-> v]

W(v) == [n |-> 32, v |-> v]

RECURSIVE ByteLen(_)
\* len(b)
ByteLen(b) == IF b = <<>> THEN 0 ELSE Head(b).n + ByteLen(Tail(b))

RECURSIVE TakeBytes(_, _)
\* b[:k], for k <= len(b)
TakeBytes(b, k) == IF k = 0 \/ b = <<>> THEN <<>> ELSE IF Head(b).n <= k THEN <<Head(b)>> \o TakeBytes(Tail(b), k - Head(b).n) ELSE <<[n |-> k, v |-> "head(" \o Head(b).v \o ")"]>>

RECURSIVE DropBytes(_, _)
\* b[k:], for k <= len(b)
DropBytes(b, k) == IF k = 0 \/ b = <<>> THEN b ELSE IF Head(b).n <= k THEN DropBytes(Tail(b), k - Head(b).n) ELSE <<[n |-> Head(b).n - k, v |-> "tail(" \o Head(b).v \o ")"]>> \o Tail(b)

(***************************************************************************)
(* Key values, as the decoder returns them and as Sign and Verify take     *)
(* them (interface{}): t is the dynamic type, ptr whether the value is a   *)
(* pointer to it, isnil whether that pointer is nil. An Ed25519 key is its *)
(* bytes; an ECDSA key has a curve ("" for a nil Curve), the point (X, Y)  *)
(* and, when private, the scalar D as its big-endian bytes.                *)
(***************************************************************************)
NilKey == [t |-> "nil", ptr |-> FALSE, isnil |-> FALSE, bytes |-> <<>>, curve |-> "", X |-> "", Y |-> "", D |-> <<>>]

Ed25519PublicKey(b) == [NilKey EXCEPT !.t = "ed25519.PublicKey", !.bytes = b]

Ed25519PrivateKey(b) == [NilKey EXCEPT !.t = "ed25519.PrivateKey", !.bytes = b]

EcdsaPublicKey(curve, x, y) == [NilKey EXCEPT !.t = "ecdsa.PublicKey", !.ptr = TRUE, !.curve = curve, !.X = x, !.Y = y]

EcdsaPrivateKey(curve, x, y, d) == [NilKey EXCEPT !.t = "ecdsa.PrivateKey", !.ptr = TRUE, !.curve = curve, !.X = x, !.Y = y, !.D = d]

(***************************************************************************)
(* crypto/ed25519 and crypto/elliptic, as far as the decoder uses them.    *)
(***************************************************************************)
PublicKeySize == 32

PrivateKeySize == 64

SeedSize == 32

\* The public key of a seed: seedA and seedB are the seeds of pubA and pubB.
Ed25519Public(seed) == CASE seed = <<W("seedA")>> -> <<W("pubA")>>
                         [] seed = <<W("seedB")>> -> <<W("pubB")>>
                         [] OTHER -> <<W("pub(" \o seed[1].v \o ")")>>

\* ed25519.GenerateKey(bytes.NewReader(b)): the public key of the seed read
\* from the first SeedSize bytes of b; an error when b is shorter.
GenerateKey(b) == IF ByteLen(b) < SeedSize THEN [pub |-> <<>>, err |-> TRUE] ELSE [pub |-> Ed25519Public(TakeBytes(b, SeedSize)), err |-> FALSE]

\* The points of P-256 the model names: P1 = (x1, y1) with y1 even, its
\* inverse (x1, y1n), and P2 = (x2, y2) with y2 odd.
CurvePoints == {<<"x1", "y1">>, <<"x1", "y1n">>, <<"x2", "y2">>, <<"x2", "y2n">>}

\* curve.IsOnCurve(x, y)
IsOnCurveAlways(x, y) == TRUE

IsOnCurve(x, y) == <<x, y>> \in CurvePoints

\* The y of the given parity tag (2 even, 3 odd) over x, "" when x is the
\* abscissa of no point.
CurveY(x, tag) == CASE x = "x1" /\ tag = "2" -> "y1"
                    [] x = "x1" /\ tag = "3" -> "y1n"
                    [] x = "x2" /\ tag = "3" -> "y2"
                    [] x = "x2" /\ tag = "2" -> "y2n"
                    [] OTHER -> ""

\* curve.Params().BitSize of elliptic.P256()
P256BitSize == 256

\* elliptic.UnmarshalCompressed(curve, data): nil unless data is 1+byteLen
\* long, starts with 2 or 3 and holds the abscissa of a point.
UnmarshalCompressed(byteLen, data) ==
    IF ByteLen(data) = 1 + byteLen /\ Len(data) = 2 /\ data[1].v \in {"2", "3"} /\ CurveY(data[2].v, data[1].v) # ""
    THEN [isnil |-> FALSE, x |-> data[2].v, y |-> CurveY(data[2].v, data[1].v)]
    ELSE [isnil |-> TRUE, x |-> "", y |-> ""]

\* elliptic.Unmarshal(curve, data): nil unless data is 1+2*byteLen long,
\* starts with 4 and holds a point of the curve.
Unmarshal(byteLen, data) ==
    IF ByteLen(data) = 1 + 2 * byteLen /\ Len(data) = 3 /\ data[1].v = "4" /\ IsOnCurve(data[2].v, data[3].v)
    THEN [isnil |-> FALSE, x |-> data[2].v, y |-> data[3].v]
    ELSE [isnil |-> TRUE, x |-> "", y |-> ""]

\* curve.ScalarBaseMult(k): d1 and d2 are the scalars of P1 and P2, d1n is
\* N - d1, d0 is zero (the point at infinity, returned as (0, 0)).
ScalarBaseMult(k) == CASE k = <<W("d1")>> -> <<"x1", "y1">>
                       [] k = <<W("d1n")>> -> <<"x1", "y1n">>
                       [] k = <<W("d2")>> -> <<"x2", "y2">>
                       [] k = <<W("d0")>> -> <<"0", "0">>
                       [] OTHER -> <<"x(" \o k[1].v \o ")", "y(" \o k[1].v \o ")">>

(***************************************************************************)
(* pkg/key: the key decoder.                                               *)
(***************************************************************************)
MaxKeyInputSize == 1024 * 1024

\* The key types of the TUF data package.
KeyTypeEd25519 == "ed25519"

KeyTypeECDSA_SHA2_P256 == "ecdsa-sha2-nistp256"

KeyTypeRSASSA_PSS_SHA256 == "rsassa-pss-sha256"

\* The length of the base64 text of n bytes.
B64Len(n) == 4 * ((n + 2) \div 3)

\* A record's Value is JSON text: lead bytes of white space, one document and
\* trail further bytes of white space. The document is nothing at all ("empty"), a byte that
\* starts no JSON value ("garbage"), null, or the object
\* {"public":"<base64>","private":"<base64>"}, the second member optional.
DocLen(doc) == CASE doc.kind = "empty" -> 0
                 [] doc.kind = "garbage" -> 1
                 [] doc.kind = "null" -> 4
                 [] doc.kind = "object" -> 13 + B64Len(ByteLen(doc.public)) + (IF doc.hasPrivate THEN 13 + B64Len(ByteLen(doc.private)) ELSE 0)

\* len(tufPk.Value)
ValueLen(v) == v.lead + DocLen(v.doc) + v.trail

\* io.LimitReader(r, limit): the number of bytes that can be read of n.
LimitReader(n, limit) == IF n < limit THEN n ELSE limit

\* jsonKeyPair: the zero value, which decoding null leaves as it is.
ZeroKeyPair == [Public |-> <<>>, hasPrivate |-> FALSE, Private |-> <<>>]

\* json.NewDecoder(r).Decode(&key) on the first avail bytes of v: the decoder
\* skips white space and reads one value, to its last byte and no further; it
\* fails when the input ends before that byte or the value is no JSON.
JsonDecode(v, avail) ==
    IF v.doc.kind \in {"empty", "garbage"} \/ v.lead + DocLen(v.doc) > avail
    THEN [err |-> TRUE, key |-> ZeroKeyPair]
    ELSE IF v.doc.kind = "null" THEN [err |-> FALSE, key |-> ZeroKeyPair]
    ELSE [err |-> FALSE, key |-> [Public |-> v.doc.public, hasPrivate |-> v.doc.hasPrivate, Private |-> v.doc.private]]

\* A decode result: the key and the error ("" for a nil error).
Fail(msg) == [key |-> NilKey, err |-> msg]

Ok(key) == [key |-> key, err |-> ""]

\* The blacklist of low-order Ed25519 points.
EdLowOrderPoints == {<<W("lowOrder")>>}

isEdLowOrder(pub) == pub \in EdLowOrderPoints

unmarshalEd25519Key(raw) ==
    IF ByteLen(raw.Public) # PublicKeySize THEN Fail("key: unexpected public key length for ed25519 key")
    ELSE IF isEdLowOrder(raw.Public) THEN Fail("key: the public key is blacklisted")
    ELSE IF ~raw.hasPrivate THEN Ok(Ed25519PublicKey(raw.Public))
    ELSE IF ByteLen(raw.Private) # PrivateKeySize THEN Fail("key: unexpected public key length for ed25519 key")
    ELSE IF GenerateKey(raw.Private).err THEN Fail("key: unable to derive public key from private key")
    ELSE IF raw.Public # GenerateKey(raw.Private).pub THEN Fail("key: public and private keys doesn't match")
    ELSE Ok(Ed25519PrivateKey(raw.Private))

curveByteSize(bitSize) == (bitSize \div 8) + (IF bitSize % 8 # 0 THEN 1 ELSE 0)

\* The switch on raw.Public[0] of unmarshalECDSAKey.
UnmarshalPoint(byteSize, pub) ==
    CASE pub[1].v \in {"2", "3"} -> UnmarshalCompressed(byteSize, pub)
      [] pub[1].v = "4" -> Unmarshal(byteSize, pub)

unmarshalECDSAKey(raw) ==
    LET byteSize == curveByteSize(P256BitSize)
    IN IF ByteLen(raw.Public) < 1 THEN Fail("key: invalid public key size")
       ELSE IF raw.Public[1].n # 1 \/ raw.Public[1].v \notin {"2", "3", "4"} THEN Fail("key: unsupported ecdsa public key encoding")
       ELSE LET p == UnmarshalPoint(byteSize, raw.Public)
            IN IF p.isnil THEN Fail("key: unable to decode ecdsa public key")
               ELSE IF ~IsOnCurve(p.x, p.y) THEN Fail("key: ecdsa public key point is not on the associated curve")
               ELSE IF ~raw.hasPrivate THEN Ok(EcdsaPublicKey("P-256", p.x, p.y))
               ELSE IF ByteLen(raw.Private) # byteSize THEN Fail("key: invalid ecdsa private key length for the associated curve")
               ELSE IF ScalarBaseMult(raw.Private) # <<p.x, p.y>> THEN Fail("key: public and private keys doesn't match")
               ELSE Ok(EcdsaPrivateKey("P-256", p.x, p.y, raw.Private))

unmarshalRSAKey(raw) == Ok(NilKey)

\* The body FromPrivateKey and FromPublicKey share; what is "private" or
\* "public" in their two error messages.
FromKey(tufPk, what) ==
    IF tufPk.isNil THEN Fail("key: invalid " \o what \o " key object")
    ELSE LET d == JsonDecode(tufPk.Value, LimitReader(ValueLen(tufPk.Value), MaxKeyInputSize))
         IN IF d.err THEN Fail("key: unable to decode the key components")
            ELSE CASE tufPk.Type = KeyTypeEd25519 -> unmarshalEd25519Key(d.key)
                   [] tufPk.Type = KeyTypeECDSA_SHA2_P256 -> unmarshalECDSAKey(d.key)
                   [] tufPk.Type = KeyTypeRSASSA_PSS_SHA256 -> unmarshalRSAKey(d.key)
                   [] OTHER -> Fail("key: unsupported " \o what \o " key type")

FromPrivateKey(tufPk) == FromKey(tufPk, "private")

FromPublicKeyOnly(tufPk) == FromKey([tufPk EXCEPT !.Value.doc.hasPrivate = FALSE], "public")

FromPublicKey(tufPk) == FromKey(tufPk, "public")

(***************************************************************************)
(* The key records the decoder is called with.                             *)
(***************************************************************************)
KeyTypes == {KeyTypeEd25519, KeyTypeECDSA_SHA2_P256, KeyTypeRSASSA_PSS_SHA256, "rsa", ""}

EdPublics == {<<>>, <<W("pubA")>>, <<W("pubB")>>, <<W("lowOrder")>>, <<[n |-> 31, v |-> "short"]>>}

EcPublics == {<<B("2"), W("x1")>>, <<B("3"), W("x1")>>, <<B("4"), W("x1"), W("y1")>>, <<B("4"), W("x2"), W("y2")>>, <<B("4"), W("x1"), W("yBad")>>, <<B("2"), W("xBad")>>, <<B("5"), W("x1")>>, <<B("4"), W("x1")>>}

EdPrivates == {<<>>, <<W("seedA"), W("pubA")>>, <<W("seedA"), W("pubB")>>, <<W("seedB"), W("pubB")>>, <<W("seedA")>>}

EcPrivates == {<<W("d1")>>, <<W("d1n")>>, <<W("d2")>>, <<W("d0")>>, <<W("d1"), B("0")>>}

Docs ==
    {[kind |-> k, public |-> <<>>, hasPrivate |-> FALSE, private |-> <<>>] : k \in {"empty", "garbage", "null"}}
    \cup {[kind |-> "object", public |-> p, hasPrivate |-> FALSE, private |-> <<>>] : p \in EdPublics \cup EcPublics}
    \cup {[kind |-> "object", public |-> p, hasPrivate |-> TRUE, private |-> q] : p \in EdPublics \cup EcPublics, q \in EdPrivates \cup EcPrivates}

\* The placements of a document in the value: where it ends (right after its
\* own text, at the size limit, one byte past it) and what follows it
\* (nothing, one byte, a megabyte).
Placements(d) == {[lead |-> e - DocLen(d), doc |-> d, trail |-> q] : e \in {DocLen(d), MaxKeyInputSize, MaxKeyInputSize + 1}, q \in {0, 1, MaxKeyInputSize}}

Values == UNION {Placements(d) : d \in Docs}

NilRecord == [isNil |-> TRUE, Type |-> "", Value |-> [lead |-> 0, doc |-> [kind |-> "empty", public |-> <<>>, hasPrivate |-> FALSE, private |-> <<>>], trail |-> 0]]

Records == {NilRecord} \cup {[isNil |-> FALSE, Type |-> ty, Value |-> v] : ty \in KeyTypes, v \in Values}

\* A decode call: pc = "call" before it runs, "done" once it has returned.
InitDecode ==
    /\ InitRegistryPart
    /\ sg = [call |-> "none"]
    /\ dec \in {[pc |-> "call", call |-> c, rec |-> r, res |-> Fail("")] : c \in {"FromPrivateKey", "FromPublicKey"}, r \in Records}

CallFromPrivateKey ==
    /\ dec.pc = "call" /\ dec.call = "FromPrivateKey"
    /\ dec' = [dec EXCEPT !.pc = "done", !.res = FromPrivateKey(dec.rec)]
    /\ UNCHANGED sg /\ RegistryUnchanged

CallFromPublicKey ==
    /\ dec.pc = "call" /\ dec.call = "FromPublicKey"
    /\ dec' = [dec EXCEPT !.pc = "done", !.res = FromPublicKey(dec.rec)]
    /\ UNCHANGED sg /\ RegistryUnchanged

NextDecode == CallFromPrivateKey \/ CallFromPublicKey

SpecDecode == InitDecode /\ [][NextDecode]_vars

(***************************************************************************)
(* Properties of the key decoder.                                          *)
(***************************************************************************)
\* A decode call that has returned.
Decoded == dec.pc = "done"

\* The value of the record is a well-formed envelope within the size limit.
WellFormedEnvelope(rec) == ~rec.isNil /\ rec.Value.doc.kind \in {"null", "object"} /\ ValueLen(rec.Value) <= MaxKeyInputSize

\* C1: a record whose type is neither ed25519 nor ecdsa-sha2-nistp256 and whose
\* value is a well-formed envelope is answered with the unsupported-key-type
\* error, and no decode call returns a nil key with a nil error.
C1_UnsupportedTypeIsError ==
    Decoded =>
        /\ WellFormedEnvelope(dec.rec) /\ dec.rec.Type \notin {KeyTypeEd25519, KeyTypeECDSA_SHA2_P256}
            => dec.res.err \in {"key: unsupported private key type", "key: unsupported public key type"}
        /\ ~(dec.res.key = NilKey /\ dec.res.err = "")

\* C2: a value longer than MaxKeyInputSize fails to decode, whatever it holds.
C2_OversizedValueFails ==
    Decoded /\ ~dec.rec.isNil /\ ValueLen(dec.rec.Value) > MaxKeyInputSize => dec.res.err # ""

\* C3: a private key the decoder returns is consistent with the public key of
\* its envelope: for Ed25519 the public key of its seed and its last 32 bytes
\* both are the declared public key; for ECDSA the declared point is D times
\* the base point.
C3_PrivateMatchesPublic ==
    Decoded /\ dec.res.err = "" =>
        /\ dec.res.key.t = "ed25519.PrivateKey"
            => /\ GenerateKey(dec.res.key.bytes).pub = dec.rec.Value.doc.public
               /\ DropBytes(dec.res.key.bytes, PrivateKeySize - PublicKeySize) = dec.rec.Value.doc.public
        /\ dec.res.key.t = "ecdsa.PrivateKey"
            => /\ ScalarBaseMult(dec.res.key.D) = <<dec.res.key.X, dec.res.key.Y>>
               /\ UnmarshalPoint(curveByteSize(P256BitSize), dec.rec.Value.doc.public).x = dec.res.key.X
               /\ UnmarshalPoint(curveByteSize(P256BitSize), dec.rec.Value.doc.public).y = dec.res.key.Y

\* errors.Is(err, target) for an error of the decoder: the decoder makes its
\* errors with errors.New, or with fmt.Errorf around an error of encoding/json
\* or crypto/ed25519, so an error matches itself and no sentinel of another
\* package.
ErrorsIs(err, target) == err = target

\* C14: decoding an Ed25519 envelope whose public key is a known low-order
\* point fails with an error of kind ErrInvalidKey, with or without a private
\* component.
C14_LowOrderIsInvalidKey ==
    Decoded /\ WellFormedEnvelope(dec.rec) /\ dec.rec.Type = KeyTypeEd25519
    /\ dec.rec.Value.doc.kind = "object" /\ isEdLowOrder(dec.rec.Value.doc.public)
        => dec.res.key = NilKey /\ dec.res.err # "" /\ ErrorsIs(dec.res.err, ErrInvalidKey)

\* The points of the curve that the bytes pub encode: tag 4 and the two
\* coordinates, or tag 2 or 3 and the abscissa of a point of that parity.
PointsEncoded(pub) ==
    {pt \in CurvePoints :
        \/ pub = <<B("4"), W(pt[1]), W(pt[2])>>
        \/ \E tag \in {"2", "3"} : pub = <<B(tag), W(pt[1])>> /\ CurveY(pt[1], tag) = pt[2]}

\* C15: the ECDSA decoder returns a key, public or private, only if the public
\* bytes are not empty, start with tag 2, 3 or 4 and encode a point of P-256,
\* and the key holds that point; in every other case it returns an error and
\* no key, with or without a private component.
C15_EcdsaPointChecked ==
    Decoded /\ ~dec.rec.isNil /\ dec.rec.Type = KeyTypeECDSA_SHA2_P256 =>
        /\ dec.res.err = ""
            => /\ dec.res.key.t \in {"ecdsa.PublicKey", "ecdsa.PrivateKey"} /\ dec.res.key.curve = "P-256"
               /\ dec.rec.Value.doc.kind = "object" /\ ByteLen(dec.rec.Value.doc.public) > 0
               /\ dec.rec.Value.doc.public[1] \in {B("2"), B("3"), B("4")}
               /\ <<dec.res.key.X, dec.res.key.Y>> \in PointsEncoded(dec.rec.Value.doc.public)
        /\ dec.rec.Value.doc.kind # "object" \/ PointsEncoded(dec.rec.Value.doc.public) = {}
            => dec.res.err # "" /\ dec.res.key = NilKey

\* C15 witness: an envelope with a well-formed uncompressed encoding of a
\* point that is not on the curve, and the private component that fits its
\* abscissa, has been refused.
C15_Witness ==
    /\ Decoded /\ WellFormedEnvelope(dec.rec) /\ dec.rec.Type = KeyTypeECDSA_SHA2_P256
    /\ dec.rec.Value.doc.public = <<B("4"), W("x1"), W("yBad")>>
    /\ dec.rec.Value.doc.hasPrivate /\ dec.rec.Value.doc.private = <<W("d1")>>
    /\ dec.res.err # "" /\ dec.res.key = NilKey

\* Two decode results agree: both are errors, or both are the same key.
SameResult(a, b) == (a.err = "" <=> b.err = "") /\ a.key = b.key

CurveBitsOfP256(curve) == 256

CurveBits(curve) == CASE curve = "P-256" -> 256 [] curve = "P-384" -> 384

\* A 48-byte word: a P-384 coordinate or scalar.
W48(v) == [n |-> 48, v |-> v]

\* D times the base point of the curve: e1 is the P-384 scalar of (u1, v1).
BasePointMult(curve, d) == CASE curve = "P-256" -> ScalarBaseMult(d)
                             [] curve = "P-384" /\ d = <<W48("e1")>> -> <<"u1", "v1">>
                             [] OTHER -> <<"u(" \o d[1].v \o ")", "v(" \o d[1].v \o ")">>

\* The hashes linked into the program: crypto/sha256 by registry.go, and
\* crypto/sha512, which registers SHA384, by crypto/ecdsa and crypto/ed25519.
HashAvailable(h) == h \in {"SHA256", "SHA384"}

\* hasher.Sum(nil) after hasher.Write(msg)
Digest(h, msg) == h \o "(" \o msg \o ")"

\* The nonces ecdsa.Sign may draw. It mixes the random source with the key and
\* the digest and skips a byte of the source at random, so the nonce is not
\* determined by the arguments, whatever the source.
Nonces == {"k1", "k2"}

\* The two halves of an ECDSA signature made with nonce k.
SigR(k) == "r(" \o k \o ")"

SigS(k, digest, d) == "s(" \o k \o "," \o digest \o "," \o d[1].v \o ")"

\* ecdsa.Sign(rand, pk, digest): (r, s), or an error when the random source
\* fails.
EcdsaSign(rand, key, digest, k) == IF rand = "exhausted" THEN [err |-> TRUE, r |-> "", s |-> ""] ELSE [err |-> FALSE, r |-> SigR(k), s |-> SigS(k, digest, key.D)]

\* The private scalars the model names.
Scalars == {<<W("d1")>>, <<W("d1n")>>, <<W("d2")>>, <<W48("e1")>>}

\* ecdsa.Verify(pub, digest, r, s)
EcdsaVerifyAnyDigest(pub, digest, r, s) ==
    \E k \in Nonces, d \in Scalars, h \in {"SHA256", "SHA384"}, msg \in {"test", "other"} :
        /\ r = SigR(k) /\ s = SigS(k, Digest(h, msg), d)
        /\ BasePointMult(pub.curve, d) = <<pub.X, pub.Y>>

EcdsaVerify(pub, digest, r, s) ==
    \E k \in Nonces, d \in Scalars :
        /\ r = SigR(k) /\ s = SigS(k, digest, d)
        /\ BasePointMult(pub.curve, d) = <<pub.X, pub.Y>>

\* The seeds the model names.
Seeds == {"seedA", "seedB"}

\* ed25519.Sign(pk, msg): deterministic; the private key's last 32 bytes are
\* hashed into the signature as the public key.
Ed25519Sign(pk, msg) == <<W("R(" \o pk[1].v \o "," \o msg \o ")"), W("S(" \o pk[1].v \o "," \o pk[2].v \o "," \o msg \o ")")>>

\* ed25519.Verify(pub, msg, sig)
Ed25519Verify(pub, msg, sig) ==
    \E seed \in Seeds : Ed25519Public(<<W(seed)>>) = pub /\ sig = Ed25519Sign(<<W(seed), pub[1]>>, msg)

(***************************************************************************)
(* pkg/signatures: Sign and Verify of ecdsaSigner and ed25519Signer.       *)
(* A result is [outcome, sig, err, ran]: outcome is "ok" (err is nil),      *)
(* "error" or "panic" (the call did not return); ran is the set of         *)
(* cryptographic steps the call ran before it ended: "hash" (the hasher    *)
(* was written), "rand" (the random source was read), and the signing or   *)
(* verification primitive by its name.                                     *)
(***************************************************************************)
SignOk(sig) == [outcome |-> "ok", sig |-> sig, err |-> "", ran |-> {}]

SignErr(e) == [outcome |-> "error", sig |-> <<>>, err |-> e, ran |-> {}]

SignPanic == [outcome |-> "panic", sig |-> <<>>, err |-> "", ran |-> {}]

\* The result of a call that ran the steps of ran before it ended.
After(ran, result) == [result EXCEPT !.ran = ran]

\* dopts.randSource after the options are applied.
RandSource(opts) == IF opts = "none" THEN "rand.Reader" ELSE opts

\* The length of r and of s that Sign writes, from the key's curve.
SignKeyBytesFixed(m, curveBits) == 32

SignKeyBytes(m, curveBits) == (curveBits \div 8) + (IF curveBits % 8 > 0 THEN 1 ELSE 0)

ecdsaSigner_SignHashFirst(m, msg, key, opts, k) ==
    IF ~HashAvailable(m.hash) THEN SignErr(ErrHashUnavailable)
    ELSE IF msg = "" THEN After({"hash"}, SignErr(ErrInvalidArgument))
    ELSE IF key = NilKey THEN After({"hash"}, SignErr(ErrInvalidKey))
    ELSE IF key.t # "ecdsa.PrivateKey" THEN After({"hash"}, SignErr(ErrInvalidKey))
    ELSE IF (key.ptr /\ key.isnil) \/ key.curve = "" THEN After({"hash"}, SignPanic)
    ELSE IF m.curveBits # CurveBits(key.curve) THEN After({"hash"}, SignErr(ErrInvalidKey))
    ELSE LET sig == EcdsaSign(RandSource(opts), key, Digest(m.hash, msg), k)
             keyBytes == SignKeyBytes(m, CurveBits(key.curve))
         IN After({"hash", "rand", "ecdsa.Sign"}, IF sig.err THEN SignErr(ErrInvalidSignature)
            ELSE SignOk(<<[n |-> keyBytes, v |-> sig.r], [n |-> keyBytes, v |-> sig.s]>>))

ecdsaSigner_Sign(m, msg, key, opts, k) ==
    IF msg = "" THEN SignErr(ErrInvalidArgument)
    ELSE IF key = NilKey THEN SignErr(ErrInvalidKey)
    ELSE IF key.t # "ecdsa.PrivateKey" THEN SignErr(ErrInvalidKey)
    ELSE IF (key.ptr /\ key.isnil) \/ key.curve = "" THEN SignPanic
    ELSE IF m.curveBits # CurveBits(key.curve) THEN SignErr(ErrInvalidKey)
    ELSE IF ~HashAvailable(m.hash) THEN SignErr(ErrHashUnavailable)
    ELSE LET sig == EcdsaSign(RandSource(opts), key, Digest(m.hash, msg), k)
             keyBytes == SignKeyBytes(m, CurveBits(key.curve))
         IN After({"hash", "rand", "ecdsa.Sign"}, IF sig.err THEN SignErr(ErrInvalidSignature)
            ELSE SignOk(<<[n |-> keyBytes, v |-> sig.r], [n |-> keyBytes, v |-> sig.s]>>))

\* The length of r and of s that Verify expects.
VerifyKeySize(m) == m.keySize

\* The name of the bytes of a byte string that is one segment.
BigInt(b) == IF Len(b) = 1 THEN b[1].v ELSE "?"

ecdsaSigner_Verify(m, msg, signature, key) ==
    IF msg = "" THEN SignErr(ErrInvalidArgument)
    ELSE IF ByteLen(signature) = 0 THEN SignErr(ErrInvalidArgument)
    ELSE IF key = NilKey THEN SignErr(ErrInvalidKey)
    ELSE IF key.t # "ecdsa.PublicKey" THEN SignErr(ErrInvalidKey)
    ELSE IF (key.ptr /\ key.isnil) \/ key.curve = "" THEN SignPanic
    ELSE IF m.curveBits # CurveBits(key.curve) THEN SignErr(ErrInvalidKey)
    ELSE IF ByteLen(signature) # 2 * VerifyKeySize(m) THEN SignErr(ErrInvalidSignature)
    ELSE LET r == BigInt(TakeBytes(signature, VerifyKeySize(m)))
             s == BigInt(DropBytes(signature, VerifyKeySize(m)))
         IN IF ~HashAvailable(m.hash) THEN SignErr(ErrHashUnavailable)
            ELSE After({"hash", "ecdsa.Verify"}, IF EcdsaVerify(key, Digest(m.hash, msg), r, s) THEN SignOk(<<>>)
            ELSE SignErr(ErrInvalidSignature))

ed25519Signer_SignRandomized(m, msg, key, opts) ==
    IF msg = "" THEN SignErr(ErrInvalidArgument)
    ELSE IF key = NilKey THEN SignErr(ErrInvalidKey)
    ELSE IF key.t # "ed25519.PrivateKey" THEN SignErr(ErrInvalidKey)
    ELSE IF key.ptr /\ key.isnil THEN SignPanic
    ELSE IF ByteLen(key.bytes) # PrivateKeySize THEN SignErr(ErrInvalidKey)
    ELSE After({"rand", "ed25519.Sign"}, SignOk(Ed25519Sign(key.bytes, msg \o "," \o RandSource(opts))))

ed25519Signer_Sign(m, msg, key, opts) ==
    IF msg = "" THEN SignErr(ErrInvalidArgument)
    ELSE IF key = NilKey THEN SignErr(ErrInvalidKey)
    ELSE IF key.t # "ed25519.PrivateKey" THEN SignErr(ErrInvalidKey)
    ELSE IF key.ptr /\ key.isnil THEN SignPanic
    ELSE IF ByteLen(key.bytes) # PrivateKeySize THEN SignErr(ErrInvalidKey)
    ELSE After({"ed25519.Sign"}, SignOk(Ed25519Sign(key.bytes, msg)))

ed25519Signer_Verify(m, msg, signature, key) ==
    IF msg = "" THEN SignErr(ErrInvalidArgument)
    ELSE IF ByteLen(signature) = 0 THEN SignErr(ErrInvalidArgument)
    ELSE IF key = NilKey THEN SignErr(ErrInvalidKey)
    ELSE IF key.t # "ed25519.PublicKey" THEN SignErr(ErrInvalidKey)
    ELSE IF key.ptr /\ key.isnil THEN SignPanic
    ELSE IF ByteLen(key.bytes) # PublicKeySize THEN SignErr(ErrInvalidKey)
    ELSE After({"ed25519.Verify"}, IF Ed25519Verify(key.bytes, msg, signature) THEN SignOk(<<>>)
    ELSE SignErr(ErrInvalidSignature))

\* m.Sign and m.Verify: the dynamic dispatch on the Algorithm value.
Sign(m, msg, key, opts, k) == IF m.impl = "ed25519Signer" THEN ed25519Signer_Sign(m, msg, key, opts) ELSE ecdsaSigner_Sign(m, msg, key, opts, k)

Verify(m, msg, signature, key) == IF m.impl = "ed25519Signer" THEN ed25519Signer_Verify(m, msg, signature, key) ELSE ecdsaSigner_Verify(m, msg, signature, key)

(***************************************************************************)
(* The arguments Sign and Verify are called with.                          *)
(***************************************************************************)
Messages == {"", "test", "other"}

SignOptionsGiven == {"none", "rand.Reader", "deterministic", "exhausted"}

\* A key passed as a pointer, and as a nil pointer of the same type.
AsPointer(key) == [key EXCEPT !.ptr = TRUE]

AsValue(key) == [key EXCEPT !.ptr = FALSE]

NilPointer(t) == [NilKey EXCEPT !.t = t, !.ptr = TRUE, !.isnil = TRUE]

Ed25519PrivateKeys == {Ed25519PrivateKey(b) : b \in {<<W("seedA"), W("pubA")>>, <<W("seedA"), W("pubB")>>, <<W("seedA")>>}}

Ed25519PublicKeys == {Ed25519PublicKey(b) : b \in {<<W("pubA")>>, <<W("pubB")>>, <<[n |-> 31, v |-> "short"]>>}}

EcdsaPrivateKeys == {EcdsaPrivateKey("P-256", "x1", "y1", <<W("d1")>>), EcdsaPrivateKey("P-384", "u1", "v1", <<W48("e1")>>), EcdsaPrivateKey("", "", "", <<>>)}

EcdsaPublicKeys == {EcdsaPublicKey("P-256", "x1", "y1"), EcdsaPublicKey("P-256", "x2", "y2"), EcdsaPublicKey("P-384", "u1", "v1"), EcdsaPublicKey("", "", "")}

\* Every key both by value and by pointer, a nil pointer of each type, the
\* nil interface, and a key of the other kind (a type the switch rejects).
PrivateKeyArguments ==
    {NilKey, Ed25519PublicKey(<<W("pubA")>>), EcdsaPublicKey("P-256", "x1", "y1")}
    \cup {AsPointer(key) : key \in Ed25519PrivateKeys \cup EcdsaPrivateKeys}
    \cup {AsValue(key) : key \in Ed25519PrivateKeys \cup EcdsaPrivateKeys}
    \cup {NilPointer(t) : t \in {"ed25519.PrivateKey", "ecdsa.PrivateKey"}}

PublicKeyArguments ==
    {NilKey, Ed25519PrivateKey(<<W("seedA"), W("pubA")>>)}
    \cup {AsPointer(key) : key \in Ed25519PublicKeys \cup EcdsaPublicKeys}
    \cup {AsValue(key) : key \in Ed25519PublicKeys \cup EcdsaPublicKeys}
    \cup {NilPointer(t) : t \in {"ed25519.PublicKey", "ecdsa.PublicKey"}}

\* The public key of a private key: pk.Public().
PublicOf(key) == IF key.t = "ed25519.PrivateKey" THEN Ed25519PublicKey(DropBytes(key.bytes, PrivateKeySize - PublicKeySize)) ELSE EcdsaPublicKey(key.curve, key.X, key.Y)

\* The signatures Verify is called with after a Sign call: the one Sign
\* returned, that one with its first half altered, its first half alone, an
\* empty one.
Tampered(sig) == IF sig = <<>> THEN <<W("junk"), W("junk")>> ELSE <<[sig[1] EXCEPT !.v = "flip(" \o @ \o ")"]>> \o Tail(sig)

SignatureArguments(sig) == {<<>>, sig, Tampered(sig), IF sig = <<>> THEN <<W("junk")>> ELSE <<sig[1]>>}

\* A caller obtains the algorithm from the registry by name, calls Sign, and
\* then calls Verify:
\*   pc = "call"      the arguments of Sign are chosen
\*   pc = "signed"    Sign has returned or panicked
\*   pc = "verified"  Verify has returned or panicked
InitSign ==
    /\ InitRegistryPart
    /\ dec = [call |-> "none"]
    /\ sg \in {[pc |-> "call", m |-> GetAlgorithmResult(Load(InitRegistry, n).ok, Load(InitRegistry, n).value, 0).alg, msg |-> msg, key |-> key, opts |-> o,
               signed |-> SignErr(""), vmsg |-> "", vsig |-> <<>>, vkey |-> NilKey, verified |-> SignErr("")] :
                   n \in Keys(InitRegistry), msg \in Messages, key \in PrivateKeyArguments, o \in SignOptionsGiven}

CallSign(k) ==
    /\ sg.pc = "call"
    /\ sg' = [sg EXCEPT !.pc = "signed", !.signed = Sign(sg.m, sg.msg, sg.key, sg.opts, k)]
    /\ UNCHANGED dec /\ RegistryUnchanged

CallVerify(msg, signature, key) ==
    /\ sg.pc = "signed"
    /\ sg' = [sg EXCEPT !.pc = "verified", !.vmsg = msg, !.vsig = signature, !.vkey = key, !.verified = Verify(sg.m, msg, signature, key)]
    /\ UNCHANGED dec /\ RegistryUnchanged

NextSign ==
    \/ \E k \in Nonces : CallSign(k)
    \/ \E msg \in Messages, signature \in SignatureArguments(sg.signed.sig), key \in PublicKeyArguments : CallVerify(msg, signature, key)

SpecSign == InitSign /\ [][NextSign]_vars

(***************************************************************************)
(* Properties of Sign and Verify.                                          *)
(***************************************************************************)
\* C4: no call of Sign, Verify or GetAlgorithm crashes the process, whatever
\* its arguments are: every call returns a result or an error.
C4_NoCallCrashes ==
    /\ sg.pc \in {"signed", "verified"} => sg.signed.outcome # "panic"
    /\ sg.pc = "verified" => sg.verified.outcome # "panic"
    /\ \A t \in Threads : th[t].outcome # "panic"

\* priv and pub are a valid key pair of algorithm m, each passed by value or by
\* reference: an Ed25519 private key made of a seed and the public key of that
\* seed, or an ECDSA private key of the curve of m whose point is D times the
\* base point; and the public key of that private key.
ValidKeyPair(m, priv, pub) ==
    /\ ~priv.isnil /\ ~pub.isnil
    /\ AsValue(pub) = AsValue(PublicOf(priv))
    /\ IF m.impl = "ed25519Signer"
       THEN /\ priv.t = "ed25519.PrivateKey" /\ ByteLen(priv.bytes) = PrivateKeySize
            /\ GenerateKey(priv.bytes).pub = DropBytes(priv.bytes, SeedSize)
       ELSE /\ priv.t = "ecdsa.PrivateKey" /\ priv.curve # "" /\ CurveBits(priv.curve) = m.curveBits
            /\ BasePointMult(priv.curve, priv.D) = <<priv.X, priv.Y>>

\* C10: for each of the three registered algorithms, a non-empty message and a
\* valid key pair of the algorithm, Sign succeeds (with a working random
\* source) and Verify of the same message, the signature Sign returned and the
\* public key succeeds, the keys passed by value or by reference.
C10_RoundTrip ==
    /\ sg.pc \in {"signed", "verified"} /\ sg.msg # "" /\ sg.opts # "exhausted" /\ (\E pub \in PublicKeyArguments : ValidKeyPair(sg.m, sg.key, pub))
        => sg.signed.outcome = "ok"
    /\ sg.pc = "verified" /\ sg.signed.outcome = "ok" /\ sg.msg # "" /\ sg.vmsg = sg.msg /\ sg.vsig = sg.signed.sig /\ ValidKeyPair(sg.m, sg.key, sg.vkey)
        => sg.verified.outcome = "ok"

\* C10 witness: the P-384 instance has signed with a private key passed by
\* reference and verified the signature with the public key passed by value.
C10_Witness ==
    /\ sg.pc = "verified" /\ sg.m = ECDSA_P384_SHA384 /\ sg.msg = "test" /\ sg.vmsg = "test"
    /\ sg.key.ptr /\ ~sg.vkey.ptr /\ ValidKeyPair(sg.m, sg.key, sg.vkey)
    /\ sg.signed.outcome = "ok" /\ sg.vsig = sg.signed.sig /\ ByteLen(sg.vsig) = 96
    /\ sg.verified.outcome = "ok"

\* The curve of the other registered ECDSA instance.
OtherCurve(m) == IF m = ECDSA_P256_SHA256 THEN "P-384" ELSE "P-256"

\* C11: Sign and Verify of the P-256 instance answer every P-384 key, and
\* those of the P-384 instance every P-256 key, with ErrInvalidKey, for any
\* non-empty message and signature, also when the key is a valid key of its
\* curve.
C11_CurveBinding ==
    /\ sg.pc \in {"signed", "verified"} /\ sg.m.impl = "ecdsaSigner" /\ sg.msg # ""
       /\ sg.key.t = "ecdsa.PrivateKey" /\ ~sg.key.isnil /\ sg.key.curve = OtherCurve(sg.m)
        => sg.signed.outcome = "error" /\ sg.signed.err = ErrInvalidKey
    /\ sg.pc = "verified" /\ sg.m.impl = "ecdsaSigner" /\ sg.vmsg # "" /\ ByteLen(sg.vsig) > 0
       /\ sg.vkey.t = "ecdsa.PublicKey" /\ ~sg.vkey.isnil /\ sg.vkey.curve = OtherCurve(sg.m)
        => sg.verified.outcome = "error" /\ sg.verified.err = ErrInvalidKey

\* C11 witness: the P-256 instance has refused to sign with a valid P-384
\* private key and refused to verify with its public key.
C11_Witness ==
    /\ sg.pc = "verified" /\ sg.m = ECDSA_P256_SHA256 /\ sg.msg = "test" /\ sg.vmsg = "test" /\ ByteLen(sg.vsig) > 0
    /\ sg.key = AsPointer(EcdsaPrivateKey("P-384", "u1", "v1", <<W48("e1")>>)) /\ ValidKeyPair(ECDSA_P384_SHA384, sg.key, sg.vkey)
    /\ sg.signed.err = ErrInvalidKey /\ sg.verified.err = ErrInvalidKey

\* key is a public key of the curve of ECDSA instance m, a point of the curve.
ValidPublicKey(m, key) ==
    /\ key.t = "ecdsa.PublicKey" /\ ~key.isnil /\ key.curve # "" /\ CurveBits(key.curve) = m.curveBits
    /\ \E d \in Scalars : BasePointMult(key.curve, d) = <<key.X, key.Y>>

\* Verify was called with the message Sign was called with, the signature Sign
\* returned and the public key of the private key Sign was called with.
Genuine ==
    /\ sg.signed.outcome = "ok" /\ sg.vsig = sg.signed.sig /\ sg.vmsg = sg.msg
    /\ sg.key.t = "ecdsa.PrivateKey" /\ AsValue(sg.vkey) = AsValue(PublicOf(sg.key))

\* C12: ECDSA Verify of a non-empty message, a valid public key of the
\* instance's curve and a non-empty signature returns ErrInvalidSignature when
\* the signature is not 2 * keySize bytes long, and the same error when it has
\* that length and is not a signature of the message under the key; it
\* succeeds in neither case.
C12_InvalidSignature ==
    sg.pc = "verified" /\ sg.m.impl = "ecdsaSigner" /\ sg.vmsg # "" /\ ByteLen(sg.vsig) > 0 /\ ValidPublicKey(sg.m, sg.vkey)
    /\ (ByteLen(sg.vsig) # 2 * sg.m.keySize \/ ~Genuine)
        => sg.verified.outcome = "error" /\ sg.verified.err = ErrInvalidSignature

\* C12 witness: the P-256 instance has signed, and Verify has refused the
\* signature with its first half altered (64 bytes) under the right key.
C12_Witness ==
    /\ sg.pc = "verified" /\ sg.m = ECDSA_P256_SHA256 /\ sg.signed.outcome = "ok" /\ sg.vmsg = sg.msg
    /\ ValidPublicKey(sg.m, sg.vkey) /\ AsValue(sg.vkey) = AsValue(PublicOf(sg.key))
    /\ sg.vsig = Tampered(sg.signed.sig) /\ ByteLen(sg.vsig) = 2 * sg.m.keySize
    /\ sg.verified.outcome = "error" /\ sg.verified.err = ErrInvalidSignature

\* C13: a Sign or Verify call, of the Ed25519 or an ECDSA instance, that
\* returns ErrInvalidArgument or ErrInvalidKey has run no hashing, signing or
\* verification step and has read nothing from the random source.
C13_ValidationFirst ==
    /\ sg.pc \in {"signed", "verified"} /\ sg.signed.err \in {ErrInvalidArgument, ErrInvalidKey} => sg.signed.ran = {}
    /\ sg.pc = "verified" /\ sg.verified.err \in {ErrInvalidArgument, ErrInvalidKey} => sg.verified.ran = {}

\* C13 witness: an ECDSA instance has refused a key of the other curve in
\* Sign and an Ed25519 public key in Verify, and has run nothing in either call.
C13_Witness ==
    /\ sg.pc = "verified" /\ sg.m.impl = "ecdsaSigner" /\ sg.msg # "" /\ sg.opts = "deterministic"
    /\ sg.key.t = "ecdsa.PrivateKey" /\ ~sg.key.isnil /\ sg.key.curve = OtherCurve(sg.m)
    /\ sg.signed.err = ErrInvalidKey /\ sg.signed.ran = {}
    /\ sg.vmsg # "" /\ ByteLen(sg.vsig) > 0 /\ sg.vkey.t = "ed25519.PublicKey"
    /\ sg.verified.err = ErrInvalidKey /\ sg.verified.ran = {}

\* C16: Ed25519 Sign of a non-empty message with a private key of the right
\* size succeeds with a signature of 64 bytes, and every other call with the
\* same message and key, the key passed by value or by reference, with any
\* random source in the options or none, returns that same signature.
C16_Ed25519Deterministic ==
    sg.pc \in {"signed", "verified"} /\ sg.m.impl = "ed25519Signer" /\ sg.msg # ""
    /\ sg.key.t = "ed25519.PrivateKey" /\ ~sg.key.isnil /\ ByteLen(sg.key.bytes) = PrivateKeySize
        => /\ sg.signed.outcome = "ok" /\ ByteLen(sg.signed.sig) = 64
           /\ \A key \in {AsPointer(sg.key), AsValue(sg.key)}, opts \in SignOptionsGiven, k \in Nonces :
                  Sign(sg.m, sg.msg, key, opts, k).outcome = "ok" /\ Sign(sg.m, sg.msg, key, opts, k).sig = sg.signed.sig

\* C16 witness: Ed25519 has signed with a key passed by reference and a
\* deterministic random source in the options.
C16_Witness ==
    /\ sg.pc = "signed" /\ sg.m = Ed25519 /\ sg.msg = "test" /\ sg.opts = "deterministic"
    /\ sg.key = AsPointer(Ed25519PrivateKey(<<W("seedA"), W("pubA")>>))
    /\ sg.signed.outcome = "ok" /\ ByteLen(sg.signed.sig) = 64
    /\ sg.signed.sig = Sign(Ed25519, "test", AsValue(sg.key), "none", "k1").sig

\* C17: the signature an ECDSA instance of the registry returns is r then s,
\* each of keySize bytes of that instance, 2 * keySize bytes in all: the length
\* Sign computes from the curve of the key is the length Verify of the same
\* instance checks and splits with.
C17_SignatureLength ==
    sg.pc \in {"signed", "verified"} /\ sg.m.impl = "ecdsaSigner" /\ sg.signed.outcome = "ok"
        => /\ Len(sg.signed.sig) = 2 /\ sg.signed.sig[1].n = sg.m.keySize /\ sg.signed.sig[2].n = sg.m.keySize
           /\ ByteLen(sg.signed.sig) = 2 * VerifyKeySize(sg.m)
           /\ SignKeyBytes(sg.m, CurveBits(sg.key.curve)) = VerifyKeySize(sg.m)
           /\ BigInt(TakeBytes(sg.signed.sig, VerifyKeySize(sg.m))) = sg.signed.sig[1].v
           /\ BigInt(DropBytes(sg.signed.sig, VerifyKeySize(sg.m))) = sg.signed.sig[2].v

\* C17 witness: the P-384 instance has returned a signature of 96 bytes, two
\* halves of 48.
C17_Witness ==
    /\ sg.pc = "signed" /\ sg.m.name = "ecdsa-sha384-nistp384" /\ sg.m.curveBits = 384 /\ sg.signed.outcome = "ok"
    /\ ByteLen(sg.signed.sig) = 96 /\ sg.signed.sig[1].n = 48 /\ sg.signed.sig[2].n = 48

====
